---- MODULE Spec2Model ----
(***************************************************************************)
(* A model of pylidar/userclasses.py: the height stratification kernel     *)
(* stratify3DArrayByValue, its two-pass driver LidarData.rebinPtsByHeight, *)
(* and the read / write / flush surface of LidarData and ImageData.        *)
(*                                                                         *)
(* Arrays are functions over index tuples: a (nPts, nRows, nCols) array is *)
(* a function over <<p, r, c>>, a (cap, nBins, nRows, nCols) array one     *)
(* over <<j, b, r, c>>, all 0-based as in the source.  bins is a function  *)
(* over 0..len-1.                                                          *)
(***************************************************************************)
EXTENDS Integers, Sequences, FiniteSets, TLC

VARIABLES
    nPts,               \* pointsByBin.shape[0]
    inValues,           \* heightArray.data
    inValuesMask,       \* heightArray.mask (TRUE = not valid)
    bins,               \* the bin edges
    op,                 \* the last call made
    err,                \* the exception that call raised, or "none"
    outIdxs_row,        \* idx_row
    outIdxs_col,        \* idx_col
    outIdxs_p,          \* idx_p
    outIdxsMask,        \* idxMask
    outIdxsCount,       \* idxCount
    slotCapacity,       \* shape[0] of the idx arrays (nPtsPerHgtBin)
    oob,                \* index tuples written outside the idx arrays
    firstCount,         \* idxCount as the first (counting) pass left it
    steps,              \* the stages rebinPtsByHeight went through
    result,             \* rebinnedPtsMasked, or NoResult
    regathered,         \* the population is the gathered output of a rebin
    prevCount,          \* idxCount of the stratification that was gathered
    spatialProcessing,  \* driver.controls.spatialProcessing
    pointsToWrite,
    pulsesToWrite,
    receivedToWrite,
    transmittedToWrite,
    data,               \* ImageData.data
    driverLog           \* the calls made on the driver, in order

inputVars == <<nPts, inValues, inValuesMask, bins, regathered, prevCount>>
outVars   == <<outIdxs_row, outIdxs_col, outIdxs_p, outIdxsMask, outIdxsCount,
               slotCapacity, oob, firstCount, steps, result>>
lidarVars == <<pointsToWrite, pulsesToWrite, receivedToWrite, transmittedToWrite>>
vars      == <<inputVars, outVars, lidarVars, op, err, spatialProcessing, data,
               driverLog>>

(***************************************************************************)
(* Bounds and input families                                               *)
(***************************************************************************)

\* pointsByBin.shape = (maxpts, nrows, ncols) of the populations drawn in Init
Shape == <<2, 1, 2>>

nRows == Shape[2]

nCols == Shape[3]

\* the values of the height field, and of the bin edges
Heights == 0..2

\* at most this many elements of a population are valid (not masked)
MaxValid == 2

\* at most this many bin edges
MaxEdges == 3

\* at most this many driver calls are logged
MaxCalls == 2

\* the arrays handed to the set* methods
Arrays == {<<1>>, <<2>>}

None == <<>>

NoResult == [shape |-> <<>>]

Idx3(n) == (0..(n - 1)) \X (0..(nRows - 1)) \X (0..(nCols - 1))

Idx4(cap, nB) == (0..(cap - 1)) \X (0..(nB - 1)) \X (0..(nRows - 1)) \X (0..(nCols - 1))

len(b) == Cardinality(DOMAIN b)

EdgeSeqs == UNION {[0..(n - 1) -> Heights] : n \in 0..MaxEdges}

NonDecreasing(b) == \A i \in DOMAIN b : \A k \in DOMAIN b : i <= k => b[i] <= b[k]

SetMax(S) == CHOOSE m \in S : \A x \in S : x <= m

Range(f) == {f[x] : x \in DOMAIN f}

(***************************************************************************)
(* stratify3DArrayByValue                                                  *)
(***************************************************************************)

\* dtype=numpy.uint16 of idxCount, idx_row, idx_col, idx_p
UInt16 == 65536

InBinClosed(v, bns, b) == v >= bns[b] /\ v <= bns[b + 1]

\* line 66: in this bin?
InBin(v, bns, b) == v >= bns[b] /\ v < bns[b + 1]

zeros3(nB) == [x \in Idx3(nB) |-> 0]

\* the idx arrays as allocated: zeros, mask all TRUE; count zeroed
Fresh(cap, nB) ==
    [row   |-> [x \in Idx4(cap, nB) |-> 0],
     col   |-> [x \in Idx4(cap, nB) |-> 0],
     p     |-> [x \in Idx4(cap, nB) |-> 0],
     mask  |-> [x \in Idx4(cap, nB) |-> TRUE],
     count |-> zeros3(nB),
     oob   |-> {},
     err   |-> "none"]

\* lines 271-274: the (1, 1, 1, 1) arrays handed to the counting pass, which
\* does not write them, with the count array zeroed (line 266)
Dummy(nB) ==
    [row   |-> [x \in {<<0, 0, 0, 0>>} |-> 0],
     col   |-> [x \in {<<0, 0, 0, 0>>} |-> 0],
     p     |-> [x \in {<<0, 0, 0, 0>>} |-> 0],
     mask  |-> [x \in {<<0, 0, 0, 0>>} |-> TRUE],
     count |-> zeros3(nB),
     oob   |-> {},
     err   |-> "none"]

StoreSlotIndex(st, j, b, r, c, p) ==
    [st EXCEPT !.row[<<j, b, r, c>>] = r,
               !.col[<<j, b, r, c>>] = c,
               !.p[<<j, b, r, c>>] = j,
               !.mask[<<j, b, r, c>>] = FALSE]

\* lines 70-73, for an index inside the arrays
Store(st, j, b, r, c, p) ==
    [st EXCEPT !.row[<<j, b, r, c>>] = r,
               !.col[<<j, b, r, c>>] = c,
               !.p[<<j, b, r, c>>] = p,
               !.mask[<<j, b, r, c>>] = FALSE]

\* lines 69-73.  The index j is not checked against the arrays' first
\* dimension.  Compiled without bounds checks the four stores land outside
\* the arrays (recorded in oob) and the loop goes on; with bounds checks, or
\* interpreted, the first store raises IndexError and the call ends there.
Fill(st, cap, b, r, c, p, checked) ==
    LET j == st.count[<<b, r, c>>]
    IN  IF j < cap THEN Store(st, j, b, r, c, p)
        ELSE IF checked THEN [st EXCEPT !.err = "IndexError"]
        ELSE [st EXCEPT !.oob = @ \cup {<<j, b, r, c>>}]

VisitIgnoringMask(st, inV, inM, bns, cap, b, r, c, p, counting, checked) ==
    IF ~InBin(inV[<<p, r, c>>], bns, b) THEN st
    ELSE LET filled == IF counting THEN st ELSE Fill(st, cap, b, r, c, p, checked)
         IN  IF filled.err # "none" THEN filled
             ELSE [filled EXCEPT !.count[<<b, r, c>>] = (@ + 1) % UInt16]

\* lines 63-75: the body of the p loop for one bin b
Visit(st, inV, inM, bns, cap, b, r, c, p, counting, checked) ==
    IF inM[<<p, r, c>>] THEN st
    ELSE IF ~InBin(inV[<<p, r, c>>], bns, b) THEN st
    ELSE LET filled == IF counting THEN st ELSE Fill(st, cap, b, r, c, p, checked)
         IN  IF filled.err # "none" THEN filled
             ELSE [filled EXCEPT !.count[<<b, r, c>>] = (@ + 1) % UInt16]

\* lines 60-65: the four nested loops, r outermost and b innermost, as one
\* scan over n = ((r * nCols + c) * nP + p) * nB + b
RECURSIVE Scan(_, _, _, _, _, _, _, _, _, _)
Scan(n, st, inV, inM, nP, bns, nB, cap, counting, checked) ==
    IF n >= nRows * nCols * nP * nB \/ st.err # "none" THEN st
    ELSE LET b == n % nB
             p == (n \div nB) % nP
             c == (n \div (nB * nP)) % nCols
             r == n \div (nB * nP * nCols)
         IN  Scan(n + 1, Visit(st, inV, inM, bns, cap, b, r, c, p, counting, checked),
                  inV, inM, nP, bns, nB, cap, counting, checked)

\* lines 58-75; st holds the out arrays, cap their first dimension
stratify3DArrayByValue(inV, inM, nP, st, cap, bns, counting, checked) ==
    LET nBins == len(bns) - 1
    IN  IF nBins <= 0 \/ nP <= 0 THEN st
        ELSE Scan(0, st, inV, inM, nP, bns, nBins, cap, counting, checked)

(***************************************************************************)
(* LidarData.rebinPtsByHeight                                              *)
(***************************************************************************)

ptsPerHgtBinLessOne(idxCount) ==
    LET m == SetMax(Range(idxCount)) IN IF m > 0 THEN m - 1 ELSE 0

\* line 280: idxCount.max()
ptsPerHgtBin(idxCount) == SetMax(Range(idxCount))

GatherSlotZero(inV, st) ==
    [x \in DOMAIN st.p |-> inV[<<0, st.row[x], st.col[x]>>]]

\* line 296: pointsByBin[(idx_p, idx_row, idx_col)].data, the height field
Gather(inV, st) ==
    [x \in DOMAIN st.p |-> inV[<<st.p[x], st.row[x], st.col[x]>>]]

\* what a call that never got to allocate leaves behind
Failed(e, done, count) ==
    [err |-> e, steps |-> done, firstCount |-> count, cap |-> 0,
     st |-> [Fresh(0, 0) EXCEPT !.count = count], result |-> NoResult]

\* lines 263-299.  steps lists the stages reached: "count" (line 278),
\* "alloc" (lines 283-286), "fill" (line 291), "gather" (lines 296-298).
rebinPtsByHeight(inV, inM, nP, bns, checked) ==
    LET nbins == len(bns) - 1
    IN  IF nbins < 0
        THEN \* line 266: numpy.zeros with a negative dimension
             Failed("ValueError", <<>>, <<>>)
        ELSE
        LET pass1 == stratify3DArrayByValue(inV, inM, nP,
                         Dummy(nbins), 1, bns,
                         TRUE, checked)
        IN  IF DOMAIN pass1.count = {}
            THEN \* line 280: max() of an array with no elements
                 Failed("ValueError", <<"count">>, pass1.count)
            ELSE
            LET cap   == ptsPerHgtBin(pass1.count)
                pass2 == stratify3DArrayByValue(inV, inM, nP, Fresh(cap, nbins),
                             cap, bns, FALSE, checked)
            IN  IF pass2.err # "none"
                THEN [err |-> pass2.err, steps |-> <<"count", "alloc", "fill">>,
                      firstCount |-> pass1.count, cap |-> cap, st |-> pass2,
                      result |-> NoResult]
                ELSE [err |-> "none",
                      steps |-> <<"count", "alloc", "fill", "gather">>,
                      firstCount |-> pass1.count, cap |-> cap, st |-> pass2,
                      result |-> [shape |-> <<cap, nbins, nRows, nCols>>,
                                  data  |-> Gather(inV, pass2),
                                  mask  |-> pass2.mask]]

(***************************************************************************)
(* Initial states                                                          *)
(***************************************************************************)

NoArrays ==
    /\ outIdxs_row = <<>> /\ outIdxs_col = <<>> /\ outIdxs_p = <<>>
    /\ outIdxsMask = <<>> /\ outIdxsCount = <<>>
    /\ slotCapacity = 0 /\ oob = {} /\ firstCount = <<>> /\ steps = <<>>
    /\ result = NoResult

NoPending ==
    /\ pointsToWrite = None /\ pulsesToWrite = None
    /\ receivedToWrite = None /\ transmittedToWrite = None
    /\ data = None /\ driverLog = <<>>

\* the data found under the mask: a height that lies inside some bins
Padding == {1}

\* a ragged population: at most MaxValid valid elements with heights drawn
\* from Heights; the data under the mask is one padding value throughout
Population(U, h, pad) ==
    /\ nPts = Shape[1]
    /\ inValuesMask = [s \in Idx3(Shape[1]) |-> s \notin U]
    /\ inValues = [s \in Idx3(Shape[1]) |-> IF s \in U THEN h[s] ELSE pad]

InitStratify ==
    /\ \E U \in SUBSET Idx3(Shape[1]) :
           /\ Cardinality(U) <= MaxValid
           /\ \E h \in [U -> Heights] : \E pad \in Padding : Population(U, h, pad)
    /\ bins \in EdgeSeqs
    /\ regathered = FALSE /\ prevCount = <<>>
    /\ op = "init" /\ err = "none"
    /\ spatialProcessing = TRUE
    /\ NoArrays /\ NoPending

(***************************************************************************)
(* Calls of the kernel and of the two-pass method                          *)
(***************************************************************************)

SetArrays(st, cap) ==
    /\ outIdxs_row' = st.row /\ outIdxs_col' = st.col /\ outIdxs_p' = st.p
    /\ outIdxsMask' = st.mask /\ outIdxsCount' = st.count
    /\ slotCapacity' = cap /\ oob' = st.oob

\* the first call of the kernel's usage note (lines 53-54): counting=True on
\* a zeroed count array; the idx arrays are not written
CountPass ==
    /\ len(bins) >= 1
    /\ LET st == stratify3DArrayByValue(inValues, inValuesMask, nPts,
                     Dummy(len(bins) - 1), 1,
                     bins, TRUE, TRUE)
       IN  /\ SetArrays(st, 1)
           /\ err' = st.err
    /\ op' = "count"
    /\ firstCount' = <<>> /\ steps' = <<>> /\ result' = NoResult
    /\ UNCHANGED <<inputVars, lidarVars, spatialProcessing, data, driverLog>>

\* the second call: counting=False on idx arrays of first dimension cap, mask
\* all TRUE, count zeroed again
FillPass(cap, checked) ==
    /\ len(bins) >= 1
    /\ LET st == stratify3DArrayByValue(inValues, inValuesMask, nPts,
                     Fresh(cap, len(bins) - 1), cap, bins, FALSE, checked)
       IN  /\ SetArrays(st, cap)
           /\ err' = st.err
    /\ op' = "fill"
    /\ firstCount' = <<>> /\ steps' = <<>> /\ result' = NoResult
    /\ UNCHANGED <<inputVars, lidarVars, spatialProcessing, data, driverLog>>

RebinPtsByHeight ==
    /\ \E checked \in BOOLEAN :
         LET l == rebinPtsByHeight(inValues, inValuesMask, nPts, bins, checked)
         IN  /\ SetArrays(l.st, l.cap)
             /\ err' = l.err
             /\ firstCount' = l.firstCount
             /\ steps' = l.steps
             /\ result' = l.result
    /\ op' = "rebinPtsByHeight"
    /\ UNCHANGED <<inputVars, lidarVars, spatialProcessing, data, driverLog>>

\* the gathered values of a stratified population, per cell: the slot and bin
\* axes of rebinnedPtsMasked flattened into one, slot q = j * nbins + b
GatheredByCell(res) ==
    LET nbins == res.shape[2]
        at(s) == <<s[1] \div nbins, s[1] % nbins, s[2], s[3]>>
    IN  [n    |-> res.shape[1] * nbins,
         vals |-> [s \in Idx3(res.shape[1] * nbins) |-> res.data[at(s)]],
         mask |-> [s \in Idx3(res.shape[1] * nbins) |-> res.mask[at(s)]]]

\* rebinPtsByHeight called again, with the same bins, on the gathered values
\* of the array it returned
RebinGathered ==
    /\ op = "rebinPtsByHeight" /\ err = "none" /\ ~regathered
    /\ LET g == GatheredByCell(result)
       IN  /\ nPts' = g.n /\ inValues' = g.vals /\ inValuesMask' = g.mask
           /\ \E checked \in BOOLEAN :
                LET l == rebinPtsByHeight(g.vals, g.mask, g.n, bins, checked)
                IN  /\ SetArrays(l.st, l.cap)
                    /\ err' = l.err
                    /\ firstCount' = l.firstCount
                    /\ steps' = l.steps
                    /\ result' = l.result
    /\ regathered' = TRUE
    /\ prevCount' = outIdxsCount
    /\ op' = "rebinPtsByHeight"
    /\ UNCHANGED <<bins, lidarVars, spatialProcessing, data, driverLog>>

\* one call per drawn input: of the kernel, on arrays its caller has just
\* allocated, or of the method
NextStratify ==
    \/ op = "init" /\ CountPass
    \/ op = "init" /\ \E cap \in 0..Shape[1] : \E checked \in BOOLEAN : FillPass(cap, checked)
    \/ op = "init" /\ RebinPtsByHeight
    \/ RebinGathered

SpecStratify == InitStratify /\ [][NextStratify]_vars

(***************************************************************************)
(* LidarData: the readers, the set* methods and flush                      *)
(***************************************************************************)

\* a call on the driver; colNames and extent are passed through unchanged
\* and left at their default, None
DriverCall(name, arg) ==
    /\ Len(driverLog) < MaxCalls
    /\ driverLog' = Append(driverLog, <<name, arg>>)

Called(name, e) ==
    /\ op' = name /\ err' = e
    /\ UNCHANGED <<inputVars, outVars, spatialProcessing>>

\* lines 179-183
GetPoints ==
    /\ IF spatialProcessing THEN DriverCall("readPointsForExtent", None)
                            ELSE DriverCall("readPointsForRange", None)
    /\ Called("getPoints", "none")
    /\ UNCHANGED <<lidarVars, data>>

\* lines 194-198
GetPulses ==
    /\ IF spatialProcessing THEN DriverCall("readPulsesForExtent", None)
                            ELSE DriverCall("readPulsesForRange", None)
    /\ Called("getPulses", "none")
    /\ UNCHANGED <<lidarVars, data>>

GetPulsesByBinsUnguarded ==
    /\ DriverCall("readPulsesForExtentByBins", None)
    /\ Called("getPulsesByBins", "none")
    /\ UNCHANGED <<lidarVars, data>>

\* lines 219-225
GetPulsesByBins ==
    /\ IF spatialProcessing
       THEN DriverCall("readPulsesForExtentByBins", None)
            /\ Called("getPulsesByBins", "none")
       ELSE UNCHANGED driverLog
            /\ Called("getPulsesByBins", "LiDARNonSpatialProcessing")
    /\ UNCHANGED <<lidarVars, data>>

\* lines 246-252
GetPointsByBins ==
    /\ IF spatialProcessing
       THEN DriverCall("readPointsForExtentByBins", None)
            /\ Called("getPointsByBins", "none")
       ELSE UNCHANGED driverLog
            /\ Called("getPointsByBins", "LiDARNonSpatialProcessing")
    /\ UNCHANGED <<lidarVars, data>>

\* line 341
SetTransmitted(transmitted) ==
    /\ transmittedToWrite' = transmitted
    /\ Called("setTransmitted", "none")
    /\ UNCHANGED <<pointsToWrite, pulsesToWrite, receivedToWrite, data, driverLog>>

\* line 348
SetReceived(received) ==
    /\ receivedToWrite' = received
    /\ Called("setReceived", "none")
    /\ UNCHANGED <<pointsToWrite, pulsesToWrite, transmittedToWrite, data, driverLog>>

\* line 358
SetPoints(points) ==
    /\ pointsToWrite' = points
    /\ Called("setPoints", "none")
    /\ UNCHANGED <<pulsesToWrite, receivedToWrite, transmittedToWrite, data, driverLog>>

\* line 368
SetPulses(pulses) ==
    /\ pulsesToWrite' = pulses
    /\ Called("setPulses", "none")
    /\ UNCHANGED <<pointsToWrite, receivedToWrite, transmittedToWrite, data, driverLog>>

\* lines 370-381: the call of driver.writeData is commented out (lines
\* 374-376), so the four buffers are reset and nothing is written
Flush ==
    /\ pointsToWrite' = None
    /\ pulsesToWrite' = None
    /\ receivedToWrite' = None
    /\ transmittedToWrite' = None
    /\ Called("flush", "none")
    /\ UNCHANGED <<data, driverLog>>

\* the array a user built by hand or read earlier, and the bins, that
\* rebinPtsByHeight is called on in this specification
ExamplePoints ==
    /\ Population({<<0, 0, 0>>}, [s \in {<<0, 0, 0>>} |-> 1], 0)
    /\ bins = [i \in 0..1 |-> 2 * i]
    /\ regathered = FALSE /\ prevCount = <<>>

InitLidar ==
    /\ spatialProcessing \in BOOLEAN
    /\ ExamplePoints
    /\ op = "init" /\ err = "none"
    /\ NoArrays /\ NoPending

NextLidar ==
    \/ GetPoints
    \/ GetPulses
    \/ GetPulsesByBins
    \/ GetPointsByBins
    \/ RebinPtsByHeight
    \/ \E a \in Arrays : SetTransmitted(a)
    \/ \E a \in Arrays : SetReceived(a)
    \/ \E a \in Arrays : SetPoints(a)
    \/ \E a \in Arrays : SetPulses(a)
    \/ Flush

SpecLidar == InitLidar /\ [][NextLidar]_vars

(***************************************************************************)
(* ImageData                                                               *)
(***************************************************************************)

\* line 401
GetData ==
    /\ DriverCall("getData", None)
    /\ Called("getData", "none")
    /\ UNCHANGED <<lidarVars, data>>

\* line 408
SetData(d) ==
    /\ data' = d
    /\ Called("setData", "none")
    /\ UNCHANGED <<lidarVars, driverLog>>

\* lines 414-415: driver.setData is called with self.data whatever it holds
FlushImage ==
    /\ DriverCall("setData", data)
    /\ data' = None
    /\ Called("flush", "none")
    /\ UNCHANGED lidarVars

\* the user function of tests/testWriteImageFromPulses.py: pulses are read
\* by bins from the lidar input and an image is set on the image output
InitImage ==
    /\ spatialProcessing \in BOOLEAN
    /\ ExamplePoints
    /\ op = "init" /\ err = "none"
    /\ NoArrays /\ NoPending

NextImage ==
    \/ GetPulsesByBins
    \/ GetData
    \/ \E d \in Arrays : SetData(d)
    \/ FlushImage

SpecImage == InitImage /\ [][NextImage]_vars

(***************************************************************************)
(* What the claims are stated in                                           *)
(***************************************************************************)

nBinsOf == len(bins) - 1

Cells == (0..(nRows - 1)) \X (0..(nCols - 1))

\* the slots of cell (r, c) that are valid and whose height is in bin b
InBinSlots(b, r, c) ==
    {p \in 0..(nPts - 1) :
        /\ ~inValuesMask[<<p, r, c>>]
        /\ bins[b] <= inValues[<<p, r, c>>]
        /\ inValues[<<p, r, c>>] < bins[b + 1]}

\* the slots of cell (r, c) that are valid and whose height is in
\* [bins[0], bins[N])
InRangeSlots(r, c) ==
    {p \in 0..(nPts - 1) :
        /\ ~inValuesMask[<<p, r, c>>]
        /\ bins[0] <= inValues[<<p, r, c>>]
        /\ inValues[<<p, r, c>>] < bins[nBinsOf]}

ValidSlots(r, c) == {p \in 0..(nPts - 1) : ~inValuesMask[<<p, r, c>>]}

RECURSIVE SumBins(_, _, _, _)
SumBins(count, b, r, c) ==
    IF b < 0 THEN 0 ELSE count[<<b, r, c>>] + SumBins(count, b - 1, r, c)

\* the unmasked slots of (b, r, c) in the idx arrays
Unmasked(b, r, c) == {j \in 0..(slotCapacity - 1) : ~outIdxsMask[<<j, b, r, c>>]}

\* slot j of (b, r, c) is unmasked and holds (r, c, p), p the j-th valid slot
\* of the cell, in increasing slot order, whose height is in bin b
HoldsJth(j, b, r, c) ==
    /\ ~outIdxsMask[<<j, b, r, c>>]
    /\ outIdxs_row[<<j, b, r, c>>] = r
    /\ outIdxs_col[<<j, b, r, c>>] = c
    /\ outIdxs_p[<<j, b, r, c>>] \in InBinSlots(b, r, c)
    /\ Cardinality({q \in InBinSlots(b, r, c) : q < outIdxs_p[<<j, b, r, c>>]}) = j

Sized == \A x \in Idx3(nBinsOf) : Cardinality(InBinSlots(x[1], x[2], x[3])) <= slotCapacity

WellFormedBins == len(bins) >= 2 /\ NonDecreasing(bins)

(***************************************************************************)
(* C1                                                                      *)
(***************************************************************************)

\* C1: after a counting pass over a zeroed count array, count[b, r, c] is the
\* number of valid slots of cell (r, c) whose height is in
\* [bins[b], bins[b+1]); and for non-decreasing edges the counts of a cell
\* sum to the number of its valid slots with height in [bins[0], bins[N]).
C1_CounterExact ==
    op = "count" =>
        /\ err = "none"
        /\ DOMAIN outIdxsCount = Idx3(nBinsOf)
        /\ \A x \in Idx3(nBinsOf) :
               outIdxsCount[x] = Cardinality(InBinSlots(x[1], x[2], x[3]))
        /\ WellFormedBins =>
               \A cell \in Cells :
                   SumBins(outIdxsCount, nBinsOf - 1, cell[1], cell[2])
                       = Cardinality(InRangeSlots(cell[1], cell[2]))

\* a counted cell with one valid element in a bin and one outside every bin
C1_Witness ==
    /\ op = "count" /\ WellFormedBins /\ nBinsOf = 2
    /\ \E cell \in Cells :
           /\ Cardinality(ValidSlots(cell[1], cell[2])) = 2
           /\ Cardinality(InRangeSlots(cell[1], cell[2])) = 1
           /\ \E b \in 0..1 : outIdxsCount[<<b, cell[1], cell[2]>>] = 1

(***************************************************************************)
(* C2                                                                      *)
(***************************************************************************)

\* C2: rebinPtsByHeight on non-decreasing edges drops nothing: it raises no
\* error and writes nowhere outside the arrays, the unmasked slots of every
\* (b, r, c) are as many as the first pass counted, every valid element whose
\* height is in some bin is held by exactly one unmasked slot, and idxCount
\* after the fill pass equals idxCount after the counting pass.
C2_TwoPassNoDrop ==
    (op = "rebinPtsByHeight" /\ WellFormedBins) =>
        /\ err = "none" /\ oob = {}
        /\ outIdxsCount = firstCount
        /\ \A x \in Idx3(nBinsOf) :
               Cardinality(Unmasked(x[1], x[2], x[3])) = firstCount[x]
        /\ \A cell \in Cells : \A p \in InRangeSlots(cell[1], cell[2]) :
               Cardinality({x \in DOMAIN outIdxsMask :
                               /\ ~outIdxsMask[x]
                               /\ outIdxs_p[x] = p
                               /\ outIdxs_row[x] = cell[1]
                               /\ outIdxs_col[x] = cell[2]}) = 1

\* two valid elements of one cell in the same bin, beside an empty (b, r, c)
C2_Witness ==
    /\ op = "rebinPtsByHeight" /\ ~regathered /\ WellFormedBins /\ err = "none"
    /\ slotCapacity = 2
    /\ \E x \in Idx3(nBinsOf) : firstCount[x] = 2
    /\ \E x \in Idx3(nBinsOf) : firstCount[x] = 0

(***************************************************************************)
(* C3                                                                      *)
(***************************************************************************)

\* C3: a fill pass on a zeroed count array, an all-invalid mask and a first
\* dimension no smaller than the largest count: in every (b, r, c) slot j
\* below the count holds the j-th valid in-bin slot of the cell, in
\* increasing slot order, and every slot from the count on is still masked.
C3_FillOrdered ==
    (op = "fill" /\ Sized) =>
        /\ err = "none" /\ oob = {}
        /\ \A x \in Idx4(slotCapacity, nBinsOf) :
               IF x[1] < Cardinality(InBinSlots(x[2], x[3], x[4]))
               THEN HoldsJth(x[1], x[2], x[3], x[4])
               ELSE outIdxsMask[x]

\* a filled (b, r, c) whose first element sits in slot 1 of the cell, slot 0
\* being masked, in arrays with room to spare
C3_Witness ==
    /\ op = "fill" /\ Sized /\ slotCapacity = 2
    /\ \E x \in Idx3(nBinsOf) :
           /\ InBinSlots(x[1], x[2], x[3]) = {1}
           /\ outIdxs_p[<<0, x[1], x[2], x[3]>>] = 1
           /\ outIdxsMask[<<1, x[1], x[2], x[3]>>]

(***************************************************************************)
(* C7                                                                      *)
(***************************************************************************)

\* C7: rebinPtsByHeight called with malformed edges (fewer than 2, or not
\* monotonic) raises before the counting pass runs and before anything is
\* allocated, and returns no array.
C7_MalformedFailFast ==
    (op = "rebinPtsByHeight" /\ ~WellFormedBins) =>
        /\ err # "none"
        /\ steps = <<>>
        /\ result = NoResult

(***************************************************************************)
(* C8                                                                      *)
(***************************************************************************)

\* C8: for non-decreasing edges, rebinPtsByHeight applied to the gathered
\* values of the array it returned, with the same edges, ends with the same
\* count in every (b, r, c) as the stratification that was gathered.
C8_RebinIdempotent ==
    (op = "rebinPtsByHeight" /\ regathered /\ WellFormedBins) =>
        /\ err = "none"
        /\ outIdxsCount = prevCount

\* a gathered population with two elements in one (b, r, c), binned again
C8_Witness ==
    /\ op = "rebinPtsByHeight" /\ regathered /\ WellFormedBins
    /\ \E x \in DOMAIN prevCount : prevCount[x] = 2
    /\ \E x \in DOMAIN prevCount : prevCount[x] = 0
    /\ nPts > 2

(***************************************************************************)
(* C9                                                                      *)
(***************************************************************************)

\* C9: a fill pass on arrays whose first dimension is smaller than the
\* largest count raises no error and writes nowhere outside the arrays; in
\* every (b, r, c) the slots below min(count, capacity) are filled as in the
\* sized case and the others stay masked.
C9_OverflowDropped ==
    (op = "fill" /\ ~Sized) =>
        /\ err = "none" /\ oob = {}
        /\ \A x \in Idx4(slotCapacity, nBinsOf) :
               IF x[1] < Cardinality(InBinSlots(x[2], x[3], x[4]))
               THEN HoldsJth(x[1], x[2], x[3], x[4])
               ELSE outIdxsMask[x]

(***************************************************************************)
(* C10                                                                     *)
(***************************************************************************)

NothingInBins == \A x \in Idx3(nBinsOf) : InBinSlots(x[1], x[2], x[3]) = {}

\* C10: rebinPtsByHeight with at least two edges, on a population with no
\* valid element in any bin, raises nothing and returns a masked array of
\* shape (0, nBins, rows, cols); and whenever it returns, a cell that is
\* masked throughout has count 0 in every bin and no unmasked slot.
C10_EmptyWellFormed ==
    (op = "rebinPtsByHeight" /\ len(bins) >= 2) =>
        /\ NothingInBins =>
               /\ err = "none"
               /\ slotCapacity = 0
               /\ result # NoResult
               /\ result.shape = <<0, nBinsOf, nRows, nCols>>
               /\ DOMAIN result.mask = {} /\ DOMAIN result.data = {}
        /\ err = "none" =>
               \A cell \in Cells :
                   ValidSlots(cell[1], cell[2]) = {} =>
                       \A b \in 0..(nBinsOf - 1) :
                           /\ outIdxsCount[<<b, cell[1], cell[2]>>] = 0
                           /\ Unmasked(b, cell[1], cell[2]) = {}

\* an entirely masked population, stratified into two bins
C10_Witness ==
    /\ op = "rebinPtsByHeight" /\ ~regathered /\ nBinsOf = 2
    /\ \A cell \in Cells : ValidSlots(cell[1], cell[2]) = {}
    /\ nPts > 0
    /\ result # NoResult /\ result.shape[1] = 0

(***************************************************************************)
(* C4                                                                      *)
(***************************************************************************)

ByCellReaders == {"getPointsByBins", "getPulsesByBins"}

FlatReaders == {"getPoints", "getPulses"}

\* C4 as claimed: in a non-spatial run getPointsByBins, getPulsesByBins and
\* rebinPtsByHeight all raise LiDARNonSpatialProcessing and make no driver
\* call, while getPoints and getPulses succeed in both modes.
C4_NonSpatialAllRaise ==
    [][/\ (~spatialProcessing /\ op' \in ByCellReaders \cup {"rebinPtsByHeight"}) =>
              (err' = "LiDARNonSpatialProcessing" /\ driverLog' = driverLog)
       /\ op' \in FlatReaders =>
              (err' = "none" /\ Len(driverLog') = Len(driverLog) + 1)]_vars

\* C4 as amended: in a non-spatial run getPointsByBins and getPulsesByBins
\* raise LiDARNonSpatialProcessing and make no driver call; rebinPtsByHeight
\* checks no mode, so in either mode it makes no driver call and never raises
\* LiDARNonSpatialProcessing; getPoints and getPulses succeed in both modes,
\* each with one driver read.
C4_ByCellReadersRaise ==
    [][/\ (~spatialProcessing /\ op' \in ByCellReaders) =>
              (err' = "LiDARNonSpatialProcessing" /\ driverLog' = driverLog)
       /\ op' = "rebinPtsByHeight" =>
              (err' # "LiDARNonSpatialProcessing" /\ driverLog' = driverLog)
       /\ op' \in FlatReaders =>
              (err' = "none" /\ Len(driverLog') = Len(driverLog) + 1)]_vars

\* a non-spatial run in which a flat read and rebinPtsByHeight have gone
\* through and getPulsesByBins has just raised
C4_Witness ==
    /\ ~spatialProcessing
    /\ op = "getPulsesByBins" /\ err = "LiDARNonSpatialProcessing"
    /\ driverLog = <<<<"readPointsForRange", None>>>>
    /\ result # NoResult

(***************************************************************************)
(* C5                                                                      *)
(***************************************************************************)

NothingPending ==
    /\ pointsToWrite = None /\ pulsesToWrite = None
    /\ receivedToWrite = None /\ transmittedToWrite = None
    /\ data = None

\* C5: flush leaves every pending buffer empty and raises nothing, also with
\* no read before it; with nothing pending it is a no-op that hands nothing
\* to the driver.
C5_FlushClearsAndIdles ==
    [][op' = "flush" =>
          /\ err' = "none"
          /\ NothingPending'
          /\ NothingPending => driverLog' = driverLog]_vars

(***************************************************************************)
(* C6                                                                      *)
(***************************************************************************)

\* C6: a set* call makes no driver call and leaves the other buffers as they
\* were; flush hands the driver the data last set in each buffer since the
\* flush before.
C6_WriteBuffersFlushCommits ==
    [][/\ op' = "setPoints" =>
              UNCHANGED <<pulsesToWrite, receivedToWrite, transmittedToWrite, driverLog>>
       /\ op' = "setPulses" =>
              UNCHANGED <<pointsToWrite, receivedToWrite, transmittedToWrite, driverLog>>
       /\ op' = "setReceived" =>
              UNCHANGED <<pointsToWrite, pulsesToWrite, transmittedToWrite, driverLog>>
       /\ op' = "setTransmitted" =>
              UNCHANGED <<pointsToWrite, pulsesToWrite, receivedToWrite, driverLog>>
       /\ (op' = "flush" /\ ~NothingPending) =>
              driverLog' = Append(driverLog,
                               <<"writeData", <<pulsesToWrite, pointsToWrite,
                                                transmittedToWrite, receivedToWrite>>>>)]_vars

====
